---- MODULE Spec2Model ----
(***************************************************************************)
(* Model of src/app.py (EnhancedYouTubeDownloader and its Streamlit main). *)
(*                                                                         *)
(* Spec        the download path: download_video (foreground: state reset, *)
(*             submit, monitoring loop, result retrieval), download_task   *)
(*             and progress_hook (background, on the ThreadPoolExecutor).  *)
(* FairSpec    Spec under fair scheduling of the polling thread, the       *)
(*             worker pool and the engine calls.                           *)
(* FormatSpec  get_available_formats on bounded lists of descriptors.      *)
(* UrlSpec     is_valid_youtube_url and extract_video_id on bounded urls.  *)
(* InfoSpec    one press of Get Video Info or Refresh Video Info           *)
(*             (get_video_info, what main stores and shows), or one failed *)
(*             download put on the page by show_error_details.             *)
(* OptsSpec    build_ydl_opts on bounded requests, called twice, and       *)
(*             cleanup_files.                                              *)
(*                                                                         *)
(* Every Python bytecode that reads or writes self.download_state is one   *)
(* atomic step (the interpreter lock); dict.update is one step.            *)
(***************************************************************************)
EXTENDS Integers, Sequences, FiniteSets, TLC

\* ------------------------------------------------------------------ bounds
\* download_video calls (hence executor submissions) per orchestrator
MaxTasks == 2
\* progress records the engine hands to progress_hook, over all its calls
MaxRecords == 3
\* directories mkdtemp makes (line 157, then one per cleanup_files)
MaxDirs == 2

\* ------------------------------------------------- program constants
max_workers == 2
max_retries == 3

\* Python's None for the string-valued fields, and for a d.get() miss
None == "None"
MissingStr == "<missing>"
\* numeric field of a progress record: key absent / key present with None
Missing == -1
NoneVal == -2

VARIABLES
    pc,              \* foreground position (line of download_video, or "idle")
    download_state,  \* the dict self.download_state refers to
    dsOwner,         \* which download_video call created that dict (0: __init__)
    writer,          \* background task that wrote that dict last (0: nobody)
    task,            \* executor: task id -> [st, result, exc]
    emitted,         \* progress records handed to progress_hook so far
    nsub,            \* futures submitted so far; the current future is nsub
    submissions,     \* executor.submit calls of the current download_video call
    req_first,       \* id of the first task of the current download_video call
    l_status,        \* local `status` of the monitoring loop (line 520)
    success,         \* local `success` (line 544)
    ret,             \* return statement download_video left by ("none" while running)
    reported,        \* text handed to show_error_details
    stale,           \* fields of the dict overwritten since the read of line 520
    mixed,           \* the current poll iteration read a field in `stale`
    formats,         \* info['formats'] handed to get_available_formats
    fmt_out          \* what get_available_formats gave back

VARIABLES
    url,             \* the string handed to the validator and the extractor
    url_parts,       \* the parts that string was put together from
    url_valid,       \* what is_valid_youtube_url returned ("none": not asked)
    url_id           \* what extract_video_id returned

VARIABLES
    info_pc,         \* position of the page's handler ("idle", a line, "done")
    info_caller,     \* the handler running: "get", "refresh" or "download"
    engine_calls,    \* calls of ydl.extract_info so far
    engine_did,      \* what the last ydl.extract_info call did
    info_out,        \* what get_video_info returned or raised
    rendered,        \* what the handler put on the page
    err_msg,         \* the text handed to show_error_details
    video_info,      \* st.session_state.video_info
    last_url         \* st.session_state.last_url

VARIABLES
    download_config, \* the request handed to build_ydl_opts
    ydl_opts,        \* what the latest build_ydl_opts call returned
    ydl_prev,        \* what the build_ydl_opts call before it returned
    temp_dir         \* self.temp_dir: the number of the directory in use

dlvars == <<pc, download_state, dsOwner, writer, task, emitted, nsub, submissions,
            req_first, l_status, success, ret, reported, stale, mixed>>
fmtvars == <<formats, fmt_out>>
urlvars == <<url, url_parts, url_valid, url_id>>
\* everything outside the download path and the format classifier
infovars == <<info_pc, info_caller, engine_calls, engine_did, info_out,
              rendered, err_msg,
              video_info, last_url>>
optvars == <<download_config, ydl_opts, ydl_prev, temp_dir>>
uivars == <<urlvars, infovars, optvars>>
vars == <<pc, download_state, dsOwner, writer, task, emitted, nsub,
          submissions, req_first, l_status, success, ret, reported, stale, mixed,
          formats, fmt_out, uivars>>

\* ------------------------------------------------------------ DownloadState
InitialState ==
    [status |-> "idle", progress |-> 0, speed |-> "", eta |-> "",
     error |-> None, total_bytes |-> 0, downloaded_bytes |-> 0]

FreshState ==
    [status |-> "starting", progress |-> 0, speed |-> "", eta |-> "",
     error |-> None, total_bytes |-> 0, downloaded_bytes |-> 0]

DetailFields == {"progress", "speed", "eta", "total_bytes", "downloaded_bytes"}

\* ------------------------------------------------ engine progress records
\* d.get(key, default)
DGet(v, default) == IF v = Missing THEN default ELSE v
DGetStr(v, default) == IF v = MissingStr THEN default ELSE v

Rec(st, tb, tbe, db, sp, et, er) ==
    [status |-> st, total_bytes |-> tb, total_bytes_estimate |-> tbe,
     downloaded_bytes |-> db, speed_str |-> sp, eta_str |-> et, error |-> er]

\* The records the engine may hand to the hook: known total, estimate only
\* with more bytes than the estimate, no total at all, a record whose totals
\* are None, finished, error (with and without a message), an unknown status.
ProgressRecords ==
    { Rec("downloading", 2, Missing, 1, "1MiB/s", "00:01", MissingStr),
      Rec("downloading", Missing, 2, 3, MissingStr, MissingStr, MissingStr),
      Rec("downloading", 0, Missing, 1, "1MiB/s", MissingStr, MissingStr),
      Rec("downloading", NoneVal, NoneVal, 1, MissingStr, MissingStr, MissingStr),
      Rec("finished", 2, Missing, 2, MissingStr, MissingStr, MissingStr),
      Rec("error", Missing, Missing, Missing, MissingStr, MissingStr, "hook: fragment failed"),
      Rec("error", Missing, Missing, Missing, MissingStr, MissingStr, MissingStr),
      Rec(MissingStr, Missing, Missing, Missing, MissingStr, MissingStr, MissingStr) }

\* d.get('total_bytes') or d.get('total_bytes_estimate', 0)
HookTotal(d) ==
    LET tb == DGet(d.total_bytes, NoneVal)
    IN  IF tb # NoneVal /\ tb # 0 THEN tb ELSE DGet(d.total_bytes_estimate, 0)

\* (downloaded_bytes / total_bytes) * 100, in whole percent
Percent(db, tb) == (db * 100) \div tb

\* min without the comparison: the first argument is passed through
Min_NoCap(a, b) == a

Min(a, b) == IF a <= b THEN a ELSE b

\* the hook with no record failing inside it
HookRaises_Never(d) == FALSE

\* `None > 0` (line 448) or `None / total_bytes` (line 449) raises TypeError
\* inside the hook's try block
HookRaises(d) ==
    /\ DGetStr(d.status, "unknown") = "downloading"
    /\ \/ HookTotal(d) = NoneVal
       \/ HookTotal(d) > 0 /\ d.downloaded_bytes = NoneVal

\* The fields progress_hook writes for record d ({} when it writes nothing)
HookWrites(d) ==
    LET st == DGetStr(d.status, "unknown")
    IN  IF HookRaises(d) THEN {}
        ELSE IF st = "downloading"
             THEN {"status", "progress", "speed", "eta",
                   "total_bytes", "downloaded_bytes", "error"}
        ELSE IF st = "finished"
             THEN {"status", "progress", "speed", "eta", "error"}
        ELSE IF st = "error" THEN {"status", "error"}
        ELSE {}

\* progress_hook(d) applied to the dict ds
progress_hook(ds, d) ==
    LET st == DGetStr(d.status, "unknown")
        total == HookTotal(d)
        downloaded == DGet(d.downloaded_bytes, 0)
        progress == IF total > 0 THEN Percent(downloaded, total) ELSE 0
    IN  IF HookRaises(d) THEN ds
        ELSE IF st = "downloading"
             THEN [status |-> "downloading",
                   progress |-> Min(progress, 100),
                   speed |-> DGetStr(d.speed_str, "Unknown"),
                   eta |-> DGetStr(d.eta_str, "Unknown"),
                   total_bytes |-> total,
                   downloaded_bytes |-> downloaded,
                   error |-> None]
        ELSE IF st = "finished"
             THEN [ds EXCEPT !.status = "finished", !.progress = 100,
                             !.speed = "", !.eta = "Complete", !.error = None]
        ELSE IF st = "error"
             THEN [ds EXCEPT !.status = "error",
                             !.error = DGetStr(d.error, "Unknown error occurred")]
        ELSE ds

\* ------------------------------------------------- engine download errors
Denied == "HTTP Error 403: Forbidden"
EngineErrors ==
    { Denied, "Private video", "blocked on copyright grounds",
      "not available in your country (geo restriction)", "Connection reset" }

\* ----------------------------------------------------------------- executor
Tasks == 1..MaxTasks
NoTask == [st |-> "none", result |-> "none", exc |-> None]
InFlight(t) == task[t].st \in {"queued", "running", "except"}
Busy == {t \in Tasks : task[t].st \in {"running", "except"}}

\* ======================================================= foreground steps

\* A download button of main() (Start Download, Quick Audio, Quick Low
\* Quality all call download_video): lines 486-497, the dict is replaced.
StartRequest ==
    /\ pc = "idle"
    /\ nsub < MaxTasks
    /\ download_state' = FreshState
    /\ dsOwner' = nsub + 1
    /\ writer' = 0
    /\ req_first' = nsub + 1
    /\ submissions' = 0
    /\ ret' = "none"
    /\ reported' = None
    /\ pc' = "L511"
    /\ UNCHANGED <<task, nsub, l_status, success, stale, mixed>>
    /\ UNCHANGED <<emitted, formats, fmt_out, uivars>>

\* line 511: future = self.executor.submit(download_task)
Submit ==
    /\ pc = "L511"
    /\ task' = [task EXCEPT ![nsub + 1] = [NoTask EXCEPT !.st = "queued"]]
    /\ nsub' = nsub + 1
    /\ submissions' = submissions + 1
    /\ pc' = "L518"
    /\ UNCHANGED <<download_state, dsOwner, writer, req_first, l_status,
                   success, ret, reported, stale, mixed>>
    /\ UNCHANGED <<emitted, formats, fmt_out, uivars>>

\* line 518 as `while True`: the loop goes on when the future is done
LoopTest_IgnoresDone ==
    /\ pc = "L518"
    /\ pc' = "L520"
    /\ l_status' = "none"
    /\ stale' = {}
    /\ mixed' = FALSE
    /\ UNCHANGED <<download_state, dsOwner, writer, task, nsub, submissions,
                   req_first, success, ret, reported>>
    /\ UNCHANGED <<emitted, formats, fmt_out, uivars>>

\* line 518: while not future.done()   (after the sleep of line 541)
LoopTest ==
    /\ pc = "L518"
    /\ pc' = IF task[nsub].st = "done" THEN "L544" ELSE "L520"
    /\ l_status' = "none"
    /\ stale' = {}
    /\ mixed' = FALSE
    /\ UNCHANGED <<download_state, dsOwner, writer, task, nsub, submissions,
                   req_first, success, ret, reported>>
    /\ UNCHANGED <<emitted, formats, fmt_out, uivars>>

\* lines 519-520: state = self.download_state; status = state['status']
ReadStatus ==
    /\ pc = "L520"
    /\ l_status' = download_state.status
    /\ stale' = {}
    /\ mixed' = FALSE
    /\ pc' = "L521"
    /\ UNCHANGED <<download_state, dsOwner, writer, task, nsub, submissions,
                   req_first, success, ret, reported>>
    /\ UNCHANGED <<emitted, formats, fmt_out, uivars>>

\* lines 521-539: progress = state['progress'], then the branch on status
ReadProgress ==
    /\ pc = "L521"
    /\ mixed' = (mixed \/ "progress" \in stale)
    /\ pc' = IF l_status = "downloading" THEN "L525"
             ELSE IF l_status = "error" THEN "L544"
             ELSE "L518"
    /\ stale' = IF l_status = "downloading" THEN stale ELSE {}
    /\ UNCHANGED <<download_state, dsOwner, writer, task, nsub, submissions,
                   req_first, l_status, success, ret, reported>>
    /\ UNCHANGED <<emitted, formats, fmt_out, uivars>>

\* line 525: speed = state['speed']
ReadSpeed ==
    /\ pc = "L525"
    /\ mixed' = (mixed \/ "speed" \in stale)
    /\ pc' = "L526"
    /\ UNCHANGED <<download_state, dsOwner, writer, task, nsub, submissions,
                   req_first, l_status, success, ret, reported, stale>>
    /\ UNCHANGED <<emitted, formats, fmt_out, uivars>>

\* line 526: eta = state['eta']
ReadEta ==
    /\ pc = "L526"
    /\ mixed' = (mixed \/ "eta" \in stale)
    /\ pc' = "L528"
    /\ UNCHANGED <<download_state, dsOwner, writer, task, nsub, submissions,
                   req_first, l_status, success, ret, reported, stale>>
    /\ UNCHANGED <<emitted, formats, fmt_out, uivars>>

\* lines 528-529: if state['total_bytes'] > 0 (else line 533, then the sleep)
ReadTotal ==
    /\ pc = "L528"
    /\ mixed' = (mixed \/ "total_bytes" \in stale)
    /\ pc' = IF download_state.total_bytes > 0 THEN "L530" ELSE "L518"
    /\ stale' = IF download_state.total_bytes > 0 THEN stale ELSE {}
    /\ UNCHANGED <<download_state, dsOwner, writer, task, nsub, submissions,
                   req_first, l_status, success, ret, reported>>
    /\ UNCHANGED <<emitted, formats, fmt_out, uivars>>

\* lines 530-531: downloaded_mb = state['downloaded_bytes'] / ..., then the sleep
ReadDownloaded ==
    /\ pc = "L530"
    /\ mixed' = (mixed \/ "downloaded_bytes" \in stale)
    /\ pc' = "L518"
    /\ stale' = {}
    /\ UNCHANGED <<download_state, dsOwner, writer, task, nsub, submissions,
                   req_first, l_status, success, ret, reported>>
    /\ UNCHANGED <<emitted, formats, fmt_out, uivars>>

\* line 544: success = future.result(timeout=5), the future being done
GetResult ==
    /\ pc = "L544"
    /\ task[nsub].st = "done"
    /\ success' = task[nsub].result
    /\ pc' = "L546"
    /\ l_status' = "none"
    /\ mixed' = FALSE
    /\ UNCHANGED <<download_state, dsOwner, writer, task, nsub, submissions,
                   req_first, ret, reported, stale>>
    /\ UNCHANGED <<emitted, formats, fmt_out, uivars>>

\* line 544 raising TimeoutError, handled by lines 555-559
ResultTimeout ==
    /\ pc = "L544"
    /\ task[nsub].st # "done"
    /\ reported' = "TimeoutError"
    /\ ret' = "L559"
    /\ pc' = "idle"
    /\ l_status' = "none"
    /\ mixed' = FALSE
    /\ UNCHANGED <<download_state, dsOwner, writer, task, nsub, submissions,
                   req_first, success, stale>>
    /\ UNCHANGED <<emitted, formats, fmt_out, uivars>>

\* CheckSuccess with the test on `success` left out (if status != 'error')
CheckSuccess_NoResultCheck ==
    /\ pc = "L546"
    /\ IF download_state.status # "error"
       THEN /\ ret' = "L549"
            /\ success' = "none"
            /\ pc' = "idle"
       ELSE /\ ret' = ret
            /\ success' = success
            /\ pc' = "L551"
    /\ UNCHANGED <<download_state, dsOwner, writer, task, nsub, submissions,
                   req_first, l_status, reported, stale, mixed>>
    /\ UNCHANGED <<emitted, formats, fmt_out, uivars>>

\* lines 546-549: if success and self.download_state['status'] != 'error'
CheckSuccess ==
    /\ pc = "L546"
    /\ IF success = "True" /\ download_state.status # "error"
       THEN /\ ret' = "L549"
            /\ success' = "none"
            /\ pc' = "idle"
       ELSE /\ ret' = ret
            /\ success' = success
            /\ pc' = "L551"
    /\ UNCHANGED <<download_state, dsOwner, writer, task, nsub, submissions,
                   req_first, l_status, reported, stale, mixed>>
    /\ UNCHANGED <<emitted, formats, fmt_out, uivars>>

\* ReportFailure that, instead of returning, starts over at line 486 and
\* submits the download again while the executor bound allows
ReportFailure_Resubmits ==
    /\ pc = "L551"
    /\ IF nsub < MaxTasks
       THEN /\ download_state' = FreshState
            /\ dsOwner' = nsub + 1
            /\ writer' = 0
            /\ pc' = "L511"
            /\ UNCHANGED <<reported, ret>>
       ELSE /\ reported' = IF download_state.error = None
                           THEN "AttributeError" ELSE download_state.error
            /\ ret' = IF download_state.error = None THEN "L559" ELSE "L553"
            /\ pc' = "idle"
            /\ UNCHANGED <<download_state, dsOwner, writer>>
    /\ success' = "none"
    /\ UNCHANGED <<task, nsub, submissions, req_first, l_status, stale, mixed>>
    /\ UNCHANGED <<emitted, formats, fmt_out, uivars>>

\* lines 551-553: error = self.download_state.get('error', ...);
\* show_error_details(error, ...); return False.  With error None,
\* error_msg.lower() (line 570) raises AttributeError and lines 555-559 run.
ReportFailure ==
    /\ pc = "L551"
    /\ IF download_state.error = None
       THEN /\ reported' = "AttributeError"
            /\ ret' = "L559"
       ELSE /\ reported' = download_state.error
            /\ ret' = "L553"
    /\ pc' = "idle"
    /\ success' = "none"
    /\ UNCHANGED <<download_state, dsOwner, writer, task, nsub, submissions,
                   req_first, l_status, stale, mixed>>
    /\ UNCHANGED <<emitted, formats, fmt_out, uivars>>

\* ======================================================= background steps

\* a worker thread of the pool takes the oldest queued task
WorkerPickup(t) ==
    /\ task[t].st = "queued"
    /\ Cardinality(Busy) < max_workers
    /\ \A u \in Tasks : u < t => task[u].st # "queued"
    /\ task' = [task EXCEPT ![t].st = "running"]
    /\ UNCHANGED <<pc, download_state, dsOwner, writer, nsub, submissions,
                   req_first, l_status, success, ret, reported, stale, mixed>>
    /\ UNCHANGED <<emitted, formats, fmt_out, uivars>>

InIteration == pc \in {"L521", "L525", "L526", "L528", "L530"}

\* the engine calls self.progress_hook(d) during ydl.download
HookRecord(t, d) ==
    /\ task[t].st = "running"
    /\ emitted < MaxRecords
    /\ emitted' = emitted + 1
    /\ download_state' = progress_hook(download_state, d)
    /\ writer' = IF HookWrites(d) = {} THEN writer ELSE t
    /\ stale' = IF InIteration THEN stale \cup (HookWrites(d) \cap DetailFields)
                ELSE stale
    /\ UNCHANGED <<pc, dsOwner, task, nsub, submissions, req_first, l_status,
                   success, ret, reported, mixed>>
    /\ UNCHANGED <<fmtvars, uivars>>

\* lines 503-504: ydl.download returns, download_task returns True
EngineReturn(t) ==
    /\ task[t].st = "running"
    /\ task' = [task EXCEPT ![t].st = "done", ![t].result = "True"]
    /\ UNCHANGED <<pc, download_state, dsOwner, writer, nsub, submissions,
                   req_first, l_status, success, ret, reported, stale, mixed>>
    /\ UNCHANGED <<emitted, formats, fmt_out, uivars>>

\* lines 505-506: ydl.download raises e; self.download_state['status'] = 'error'
EngineRaise(t, e) ==
    /\ task[t].st = "running"
    /\ task' = [task EXCEPT ![t].st = "except", ![t].exc = e]
    /\ download_state' = [download_state EXCEPT !.status = "error"]
    /\ writer' = t
    /\ UNCHANGED <<pc, dsOwner, nsub, submissions, req_first, l_status,
                   success, ret, reported, stale, mixed>>
    /\ UNCHANGED <<emitted, formats, fmt_out, uivars>>

\* lines 507-508: self.download_state['error'] = str(e); return False
TaskExcept(t) ==
    /\ task[t].st = "except"
    /\ task' = [task EXCEPT ![t].st = "done", ![t].result = "False"]
    /\ download_state' = [download_state EXCEPT !.error = task[t].exc]
    /\ writer' = t
    /\ UNCHANGED <<pc, dsOwner, nsub, submissions, req_first, l_status,
                   success, ret, reported, stale, mixed>>
    /\ UNCHANGED <<emitted, formats, fmt_out, uivars>>

\* ================================================== get_available_formats
\* bounds of the descriptor lists handed to get_available_formats: a free
\* prefix of at most MaxPrefix descriptors followed by at most MaxFill
\* descriptors of one kind (enough of one class to pass the display caps)
MaxPrefix == 2
MaxFill == 16

\* line 333: video_formats[:15], audio_formats[:10], combined_formats[:15]
VideoCap == 15
AudioCap == 10
CombinedCap == 15

Fmt(pr, vc, ac, h, abr) ==
    [protocol |-> pr, vcodec |-> vc, acodec |-> ac, height |-> h, abr |-> abr]

\* The descriptor kinds of the inputs: video-only (720p; 360p without an
\* acodec key), audio-only (with and without vcodec and protocol keys),
\* combined, segmented (HLS video, DASH audio), a storyboard with neither
\* codec, and a video-only descriptor whose height is None.
FormatKinds ==
    { Fmt("https", "avc1", "none", 720, Missing),
      Fmt("https", "vp9", MissingStr, 360, Missing),
      Fmt("https", "none", "mp4a", Missing, 128),
      Fmt(MissingStr, MissingStr, "opus", Missing, 64),
      Fmt("https", "avc1", "mp4a", 360, 96),
      Fmt("m3u8_native", "avc1", "mp4a", 720, 128),
      Fmt("http_dash_segments", "none", "mp4a", Missing, 128),
      Fmt("mhtml", "none", "none", 90, Missing),
      Fmt("https", "avc1", "none", NoneVal, Missing) }

\* a list of descriptors; `id` is the position of the dict in info['formats']
WithIds(kinds) ==
    [i \in 1..Len(kinds) |->
        [id |-> i, protocol |-> kinds[i].protocol, vcodec |-> kinds[i].vcodec,
         acodec |-> kinds[i].acodec, height |-> kinds[i].height,
         abr |-> kinds[i].abr]]

Prefixes == UNION {[1..n -> FormatKinds] : n \in 0..MaxPrefix}

FormatInputs ==
    { WithIds(p \o [i \in 1..r |-> k]) :
        p \in Prefixes, k \in FormatKinds, r \in 0..MaxFill }

\* line 315: fmt.get('protocol') in ['m3u8', 'm3u8_native', 'http_dash_segments']
IsSkipped_OnlyM3u8(f) == f.protocol = "m3u8"
IsSkipped(f) == f.protocol \in {"m3u8", "m3u8_native", "http_dash_segments"}

\* lines 318-319: fmt.get('vcodec', 'none'), fmt.get('acodec', 'none')
VCodecOf(f) == DGetStr(f.vcodec, "none")
ACodecOf(f) == DGetStr(f.acodec, "none")

\* lines 321-326: the three branches
IsCombined(f) == VCodecOf(f) # "none" /\ ACodecOf(f) # "none"
IsVideoOnly(f) == VCodecOf(f) # "none" /\ ACodecOf(f) = "none"
IsAudioOnly(f) == ACodecOf(f) # "none" /\ VCodecOf(f) = "none"

\* the sort key x.get(field, 0)
SortKey(f, field) == DGet(f[field], 0)

\* list.sort(key=..., reverse=True): descending, stable
RECURSIVE SortDesc(_, _)
SortDesc(seq, field) ==
    IF seq = <<>> THEN <<>>
    ELSE LET n == Len(seq)
             front == SortDesc(SubSeq(seq, 1, n - 1), field)
             x == seq[n]
             k == Cardinality({i \in DOMAIN front :
                                 SortKey(front[i], field) >= SortKey(x, field)})
         IN  SubSeq(front, 1, k) \o <<x>> \o SubSeq(front, k + 1, Len(front))

\* comparing a None key raises TypeError as soon as the list has two entries
SortRaises(seq, field) ==
    Len(seq) >= 2 /\ \E i \in DOMAIN seq : seq[i][field] = NoneVal

\* seq[:cap]
Slice(seq, cap) == SubSeq(seq, 1, Min(Len(seq), cap))

NotCalled ==
    [called |-> FALSE, raised |-> FALSE,
     video |-> <<>>, audio |-> <<>>, combined |-> <<>>]

\* get_available_formats(info) for info['formats'] = fs
get_available_formats(fs) ==
    LET kept == SelectSeq(fs, LAMBDA f : ~IsSkipped(f))
        video_formats == SelectSeq(kept, IsVideoOnly)
        audio_formats == SelectSeq(kept, IsAudioOnly)
        combined_formats == SelectSeq(kept, IsCombined)
    IN  IF \/ SortRaises(video_formats, "height")
           \/ SortRaises(audio_formats, "abr")
           \/ SortRaises(combined_formats, "height")
        THEN [NotCalled EXCEPT !.called = TRUE, !.raised = TRUE]
        ELSE [called |-> TRUE, raised |-> FALSE,
              video |-> Slice(SortDesc(video_formats, "height"), VideoCap),
              audio |-> Slice(SortDesc(audio_formats, "abr"), AudioCap),
              combined |-> Slice(SortDesc(combined_formats, "height"), CombinedCap)]

\* main(), line 834: the Show Available Formats view calls the classifier
ShowFormats ==
    /\ ~fmt_out.called
    /\ fmt_out' = get_available_formats(formats)
    /\ UNCHANGED formats
    /\ UNCHANGED <<dlvars, uivars>>

\* ============================================== URL validation, id extraction
\* A Python str is the sequence of its characters.
LowerCase ==
    {"a", "b", "c", "d", "e", "f", "g", "h", "i", "j", "k", "l", "m", "n",
    "o", "p", "q", "r", "s", "t", "u", "v", "w", "x", "y", "z"}
UpperCase ==
    {"A", "B", "C", "D", "E", "F", "G", "H", "I", "J", "K", "L", "M", "N",
    "O", "P", "Q", "R", "S", "T", "U", "V", "W", "X", "Y", "Z"}
Digits ==
    {"0", "1", "2", "3", "4", "5", "6", "7", "8", "9"}
\* a letter outside ASCII (e with acute accent): \w matches it, [0-9A-Za-z_-] does not
NonAscii == {"e_acute"}
\* [\w-] of the validator's patterns (re, str pattern: Unicode \w)
WordOrDash == LowerCase \cup UpperCase \cup Digits \cup NonAscii \cup {"_", "-"}
\* [0-9A-Za-z_-] of the extractor's patterns
IdChars == LowerCase \cup UpperCase \cup Digits \cup {"_", "-"}
\* {11} of the extractor's patterns
IdLen == 11

\* the literal parts of the regular expressions of lines 192-197 and 204-208
Lit ==
    [http |-> <<"h", "t", "t", "p">>,
     s |-> <<"s">>,
     colon |-> <<":", "/", "/">>,
     www |-> <<"w", "w", "w", ".">>,
     m |-> <<"m", ".">>,
     watch |->
         <<"y", "o", "u", "t", "u", "b", "e", ".", "c", "o", "m", "/", "w",
           "a", "t", "c", "h", "?", "v", "=">>,
     short |-> <<"y", "o", "u", "t", "u", ".", "b", "e", "/">>,
     embed |->
         <<"y", "o", "u", "t", "u", "b", "e", ".", "c", "o", "m", "/", "e",
           "m", "b", "e", "d", "/">>,
     legacy |->
         <<"y", "o", "u", "t", "u", "b", "e", ".", "c", "o", "m", "/", "v",
           "/">>,
     veq |-> <<"v", "=">>,
     slash |-> <<"/">>,
     embedslash |-> <<"e", "m", "b", "e", "d", "/">>,
     vslash |-> <<"v", "/">>]


\* ---- re.match: the set of positions a pattern part can have consumed up to
\* lit occurs in s at position p
LitAt(s, p, lit) ==
    /\ p + Len(lit) - 1 <= Len(s)
    /\ \A k \in 1..Len(lit) : s[p + k - 1] = lit[k]

\* positions after the literal lit, from the positions P
After(s, P, lit) == {p + Len(lit) : p \in {q \in P : LitAt(s, q, lit)}}

\* (?:lit)? : with or without the literal
Opt(s, P, lit) == P \cup After(s, P, lit)

\* [class]+ : one or more characters of the class
Plus(s, P, class) ==
    {e \in 2..(Len(s) + 1) :
        \E p \in P : p < e /\ \A k \in p..(e - 1) : s[k] \in class}

\* (?:https?://)?
OptScheme(s, P) == P \cup After(s, Opt(s, After(s, P, Lit.http), Lit.s), Lit.colon)

\* lines 192-198: where a match of pattern n from the start of s can end
\* (empty: re.match gives None)
youtube_patterns(n, s) ==
    CASE n = 1 -> Plus(s, After(s, Opt(s, OptScheme(s, {1}), Lit.www), Lit.watch), WordOrDash)
      [] n = 2 -> Plus(s, After(s, Opt(s, OptScheme(s, {1}), Lit.www), Lit.short), WordOrDash)
      [] n = 3 -> Plus(s, After(s, Opt(s, OptScheme(s, {1}), Lit.www), Lit.embed), WordOrDash)
      [] n = 4 -> Plus(s, After(s, Opt(s, OptScheme(s, {1}), Lit.www), Lit.legacy), WordOrDash)
      [] n = 5 -> Plus(s, After(s, Opt(s, OptScheme(s, {1}), Lit.m), Lit.watch), WordOrDash)

\* lines 187-200
is_valid_youtube_url(u) ==
    IF u = <<>>
    THEN FALSE
    ELSE \E n \in 1..5 : youtube_patterns(n, u) # {}

\* ---- re.search with one group
Least(S) == CHOOSE x \in S : \A y \in S : x <= y

\* lines 204-208: the alternatives in front of the group of pattern n, in
\* order; the group ([0-9A-Za-z_-]{11}) follows each
patterns(n) ==
    CASE n = 1 -> <<Lit.veq, Lit.slash>>
      [] n = 2 -> <<Lit.embedslash>>
      [] n = 3 -> <<Lit.vslash>>

\* ([0-9A-Za-z_-]{11}) matches at position g
IdRun(s, g) ==
    /\ g + IdLen - 1 <= Len(s)
    /\ \A k \in 0..(IdLen - 1) : s[g + k] \in IdChars

\* the alternatives of pattern n that match with the prefix at position i
AltsAt(s, n, i) ==
    {k \in DOMAIN patterns(n) :
        LitAt(s, i, patterns(n)[k]) /\ IdRun(s, i + Len(patterns(n)[k]))}

\* start positions of the matches of pattern n in s
MatchStarts(s, n) == {i \in 1..Len(s) : AltsAt(s, n, i) # {}}

\* match.group(0) starts here: the whole match at position i
GroupStart_WholeMatch(s, n, i) == i

\* match.group(1) starts here, for the match of pattern n at position i
GroupStart(s, n, i) == i + Len(patterns(n)[Least(AltsAt(s, n, i))])

\* re.search(pattern n, s).group(1): leftmost match, first alternative
Group1(s, n) ==
    LET i == Least(MatchStarts(s, n))
        g == GroupStart(s, n, i)
    IN  SubSeq(s, g, g + IdLen - 1)

NoId == [found |-> FALSE, id |-> <<>>]

\* lines 202-214: the first pattern that matches decides
extract_video_id(u) ==
    IF \E n \in 1..3 : MatchStarts(u, n) # {}
    THEN [found |-> TRUE,
          id |-> Group1(u, Least({n \in 1..3 : MatchStarts(u, n) # {}}))]
    ELSE NoId

\* the url a caller hands in, from its parts
Url(p) == p.scheme \o p.sub \o p.hostpath \o p.id \o p.tail

UrlParts ==
    [scheme :
         { <<>>,
         <<"h", "t", "t", "p", ":", "/", "/">>,
         <<"h", "t", "t", "p", "s", ":", "/", "/">>,
         <<"f", "t", "p", ":", "/", "/">> },
     sub :
         { <<>>,
         <<"w", "w", "w", ".">>,
         <<"m", ".">> },
     hostpath :
         { <<"y", "o", "u", "t", "u", "b", "e", ".", "c", "o", "m", "/", "w", "a", "t", "c", "h", "?", "v", "=">>,
         <<"y", "o", "u", "t", "u", ".", "b", "e", "/">>,
         <<"y", "o", "u", "t", "u", "b", "e", ".", "c", "o", "m", "/", "e", "m", "b", "e", "d", "/">>,
         <<"y", "o", "u", "t", "u", "b", "e", ".", "c", "o", "m", "/", "v", "/">>,
         <<"y", "o", "u", "t", "u", "b", "e", ".", "c", "o", "m", "/", "w", "a", "t", "c", "h", "?", "f", "e", "a", "t", "u", "r", "e", "=", "s", "h", "a", "r", "e", "&", "v", "=">>,
         <<"y", "o", "u", "t", "u", "b", "e", ".", "c", "o", "m", "/", "s", "h", "o", "r", "t", "s", "/">>,
         <<"e", "x", "a", "m", "p", "l", "e", ".", "c", "o", "m", "/">>,
         <<"v", "i", "m", "e", "o", ".", "c", "o", "m", "/", "v", "i", "d", "e", "o", "/">>,
         <<"h", "e", "l", "l", "o", " ">> },
     id :
         { <<"d", "Q", "w", "4", "w", "9", "W", "g", "X", "c", "Q">>,
         <<"a", "-", "_", "Z", "0", "9", "b", "c", "d", "e", "f">>,
         <<"d", "Q", "w", "4", "w", "9", "W">>,
         <<"d", "Q", "w", "4", "w", "9", "W", "g", "X", "c", "Q", "1", "2">>,
         <<>>,
         <<"d", "Q", "w", "4", "w", "!", "9", "W", "g", "X", "c">>,
         <<"c", "a", "f", "e_acute", "d", "Q", "w", "4", "w", "9", "W">> },
     tail :
         { <<>>,
         <<"&", "t", "=", "1", "0", "s">>,
         <<"?", "s", "i", "=", "A", "b", "C", "d", "E", "f", "G", "h", "I", "j", "K", "l", "M", "n", "O", "p">>,
         <<"&", "l", "i", "s", "t", "=", "P", "L", "a", "b", "c", "d", "e", "f", "g", "h", "i", "j", "k", "&", "i", "n", "d", "e", "x", "=", "2">>,
         <<"/", "e", "x", "t", "r", "a">> }]

NotAsked == "none"

\* a caller asks the validator about the url
Validate ==
    /\ url_valid = NotAsked
    /\ url_valid' = IF is_valid_youtube_url(url) THEN "True" ELSE "False"
    /\ UNCHANGED <<url, url_parts, url_id>>
    /\ UNCHANGED <<dlvars, fmtvars, infovars, optvars>>

\* a caller asks the extractor about the url
ExtractId ==
    /\ ~url_id.called
    /\ url_id' = [called |-> TRUE, out |-> extract_video_id(url)]
    /\ UNCHANGED <<url, url_parts, url_valid>>
    /\ UNCHANGED <<dlvars, fmtvars, infovars, optvars>>

\* ===================================== metadata fetch and error rendering
\* str.lower() on the characters of the texts
UpperSeq ==
    <<"A", "B", "C", "D", "E", "F", "G", "H", "I", "J", "K", "L", "M", "N",
    "O", "P", "Q", "R", "S", "T", "U", "V", "W", "X", "Y", "Z">>
LowerSeq ==
    <<"a", "b", "c", "d", "e", "f", "g", "h", "i", "j", "k", "l", "m", "n",
    "o", "p", "q", "r", "s", "t", "u", "v", "w", "x", "y", "z">>

\* the keywords of lines 259-263 and 573-596
Keyword ==
    [private |-> <<"p", "r", "i", "v", "a", "t", "e">>,
     unavailable |->
         <<"u", "n", "a", "v", "a", "i", "l", "a", "b", "l", "e">>,
     copyright |-> <<"c", "o", "p", "y", "r", "i", "g", "h", "t">>,
     geo |-> <<"g", "e", "o">>,
     blocked |-> <<"b", "l", "o", "c", "k", "e", "d">>,
     n429 |-> <<"4", "2", "9">>,
     too_many_requests |->
         <<"t", "o", "o", " ", "m", "a", "n", "y", " ", "r", "e", "q", "u",
           "e", "s", "t", "s">>,
     fragment |-> <<"f", "r", "a", "g", "m", "e", "n", "t">>,
     m3u8 |-> <<"m", "3", "u", "8">>]

\* the texts of the ValueErrors of lines 219-270
Msg ==
    [invalid |->
         <<"I", "n", "v", "a", "l", "i", "d", " ", "Y", "o", "u", "T", "u",
           "b", "e", " ", "U", "R", "L">>,
     private |->
         <<"V", "i", "d", "e", "o", " ", "i", "s", " ", "p", "r", "i", "v",
           "a", "t", "e", " ", "o", "r", " ", "u", "n", "a", "v", "a", "i",
           "l", "a", "b", "l", "e">>,
     copyright |->
         <<"V", "i", "d", "e", "o", " ", "i", "s", " ", "c", "o", "p", "y",
           "r", "i", "g", "h", "t", " ", "p", "r", "o", "t", "e", "c", "t",
           "e", "d">>,
     geo |->
         <<"V", "i", "d", "e", "o", " ", "i", "s", " ", "g", "e", "o", "-",
           "b", "l", "o", "c", "k", "e", "d", " ", "i", "n", " ", "y", "o",
           "u", "r", " ", "r", "e", "g", "i", "o", "n">>,
     download_error |->
         <<"D", "o", "w", "n", "l", "o", "a", "d", " ", "e", "r", "r", "o",
           "r", ":", " ">>,
     failed |->
         <<"F", "a", "i", "l", "e", "d", " ", "t", "o", " ", "g", "e", "t",
           " ", "v", "i", "d", "e", "o", " ", "i", "n", "f", "o", ":", " ">>]

\* the texts main and show_error_details put on the page
Text ==
    [cross |-> <<"x_mark", " ">>,
     refresh_failed |->
         <<"x_mark", " ", "R", "e", "f", "r", "e", "s", "h", " ", "f", "a",
           "i", "l", "e", "d", ":", " ">>,
     enter_valid |->
         <<"x_mark", " ", "P", "l", "e", "a", "s", "e", " ", "e", "n", "t",
           "e", "r", " ", "a", " ", "v", "a", "l", "i", "d", " ", "Y", "o",
           "u", "T", "u", "b", "e", " ", "U", "R", "L">>,
     download_failed |->
         <<"x_mark", " ", "D", "o", "w", "n", "l", "o", "a", "d", " ", "f",
           "a", "i", "l", "e", "d", "!">>,
     loaded |->
         <<"check_mark", " ", "V", "i", "d", "e", "o", " ", "i", "n", "f",
           "o", " ", "l", "o", "a", "d", "e", "d", " ", "s", "u", "c", "c",
           "e", "s", "s", "f", "u", "l", "l", "y", "!">>,
     refreshed |->
         <<"check_mark", " ", "V", "i", "d", "e", "o", " ", "i", "n", "f",
           "o", " ", "r", "e", "f", "r", "e", "s", "h", "e", "d", "!">>]

\* pieces the texts of the engine's exceptions are made of
Fragments ==
    { <<>>,
      <<"E", "R", "R", "O", "R", ":", " ", "P", "r", "i", "v", "a", "t", "e", " ", "v", "i", "d", "e", "o", ".", " ">>,
      <<"V", "i", "d", "e", "o", " ", "u", "n", "a", "v", "a", "i", "l", "a", "b", "l", "e", ".", " ">>,
      <<"C", "o", "p", "y", "r", "i", "g", "h", "t", " ", "c", "l", "a", "i", "m", ".", " ">>,
      <<"G", "E", "O", " ", "r", "e", "s", "t", "r", "i", "c", "t", "e", "d", ".", " ">>,
      <<"b", "l", "o", "c", "k", "e", "d", " ", "i", "n", " ", "y", "o", "u", "r", " ", "c", "o", "u", "n", "t", "r", "y", ".", " ">>,
      <<"H", "T", "T", "P", " ", "E", "r", "r", "o", "r", " ", "4", "2", "9", ":", " ", "T", "o", "o", " ", "M", "a", "n", "y", " ", "R", "e", "q", "u", "e", "s", "t", "s", ".", " ">>,
      <<"H", "T", "T", "P", " ", "E", "r", "r", "o", "r", " ", "4", "0", "3", ":", " ", "F", "o", "r", "b", "i", "d", "d", "e", "n", ".", " ">>,
      <<"f", "r", "a", "g", "m", "e", "n", "t", " ", "1", " ", "n", "o", "t", " ", "f", "o", "u", "n", "d", ".", " ">>,
      <<"m", "3", "u", "8", " ", "d", "o", "w", "n", "l", "o", "a", "d", " ", "f", "a", "i", "l", "e", "d", ".", " ">>,
      <<"t", "i", "m", "e", "d", " ", "o", "u", "t", ".", " ">> }

\* texts str(e) of the exceptions the engine raises
Messages == {a \o b : a \in Fragments, b \in Fragments}

LowerChar(c) ==
    IF c \in UpperCase
    THEN LowerSeq[CHOOSE k \in DOMAIN UpperSeq : UpperSeq[k] = c]
    ELSE c

\* s.lower()
lower(s) == [k \in DOMAIN s |-> LowerChar(s[k])]

\* sub in s
Contains(s, sub) == \E i \in 1..Len(s) : LitAt(s, i, sub)

\* what ydl.extract_info(url, download=False) can do (line 236)
\* the info dicts the engine returns: one with every key, one without
\* title and uploader
EngineInfos ==
    {[id |-> "A", title |-> "Title A", uploader |-> "Channel A"],
     [id |-> "B", title |-> MissingStr, uploader |-> MissingStr]}

NoEngineInfo == [id |-> None, title |-> MissingStr, uploader |-> MissingStr]

EngineOutcomes ==
    [kind : {"info"}, msg : {<<>>}, info : EngineInfos]
    \cup {[kind |-> "None", msg |-> <<>>, info |-> NoEngineInfo]}
    \cup [kind : {"DownloadError", "Exception"}, msg : Messages,
          info : {NoEngineInfo}]

\* lines 698-699: no metadata stored (video_info is None)
NoInfo == [present |-> FALSE, id |-> None, title |-> None, uploader |-> None]

\* lines 241-254: the dict get_video_info builds from the engine's info
cleaned_info(info) ==
    [present |-> TRUE,
     id |-> info.id,
     title |-> DGetStr(info.title, "Unknown Title"),
     uploader |-> DGetStr(info.uploader, "Unknown")]

ValueError(m) == [kind |-> "ValueError", msg |-> m, info |-> NoInfo]

\* lines 258-266 with geo/blocked tested before private/unavailable
on_DownloadError_GeoFirst(e) ==
    LET error_msg == lower(e)
    IN  IF Contains(error_msg, Keyword.geo) \/ Contains(error_msg, Keyword.blocked)
        THEN ValueError(Msg.geo)
        ELSE IF Contains(error_msg, Keyword.private) \/ Contains(error_msg, Keyword.unavailable)
        THEN ValueError(Msg.private)
        ELSE IF Contains(error_msg, Keyword.copyright)
        THEN ValueError(Msg.copyright)
        ELSE ValueError(Msg.download_error \o e)

\* lines 257-266: except yt_dlp.DownloadError as e
on_DownloadError(e) ==
    LET error_msg == lower(e)
    IN  IF Contains(error_msg, Keyword.private) \/ Contains(error_msg, Keyword.unavailable)
        THEN ValueError(Msg.private)
        ELSE IF Contains(error_msg, Keyword.copyright)
        THEN ValueError(Msg.copyright)
        ELSE IF Contains(error_msg, Keyword.geo) \/ Contains(error_msg, Keyword.blocked)
        THEN ValueError(Msg.geo)
        ELSE ValueError(Msg.download_error \o e)

\* lines 268-270: except Exception as e
on_Exception(e) == ValueError(Msg.failed \o e)

\* lines 236-272: what get_video_info gives for an outcome of the engine
after_extract_info(o) ==
    CASE o.kind = "info" ->
             [kind |-> "info", msg |-> <<>>, info |-> cleaned_info(o.info)]
      [] o.kind = "None" -> [kind |-> "None", msg |-> <<>>, info |-> NoInfo]
      [] o.kind = "DownloadError" -> on_DownloadError(o.msg)
      [] o.kind = "Exception" -> on_Exception(o.msg)

NoOutcome == [kind |-> "none", msg |-> <<>>, info |-> NoInfo]

\* ydl.extract_info not called
NoEngineOutcome == [kind |-> "none", msg |-> <<>>, info |-> NoEngineInfo]

\* nothing on the page
Blank ==
    [by |-> "none", level |-> "none", headline |-> <<>>, code |-> <<>>,
     category |-> "none", tips |-> 0, buttons |-> 0]

\* st.error(text) / st.success(text) of main
Banner(level, text) ==
    [by |-> "main", level |-> level, headline |-> text, code |-> <<>>,
     category |-> "none", tips |-> 0, buttons |-> 0]

\* lines 573-606: the heading and the number of bullet lines of the branch
ErrorBranch(error_msg) ==
    LET error_lower == lower(error_msg)
    IN  IF Contains(error_msg, Keyword.n429) \/ Contains(error_lower, Keyword.too_many_requests)
        THEN [category |-> "Rate Limiting Issue", tips |-> 3]
        ELSE IF Contains(error_lower, Keyword.private) \/ Contains(error_lower, Keyword.unavailable)
        THEN [category |-> "Video Access Issue", tips |-> 3]
        ELSE IF Contains(error_lower, Keyword.copyright)
        THEN [category |-> "Copyright Protected", tips |-> 0]
        ELSE IF Contains(error_lower, Keyword.geo) \/ Contains(error_lower, Keyword.blocked)
        THEN [category |-> "Geographic Restriction", tips |-> 3]
        ELSE IF Contains(error_lower, Keyword.fragment) \/ Contains(error_lower, Keyword.m3u8)
        THEN [category |-> "Streaming Format Issue", tips |-> 3]
        ELSE [category |-> "General Troubleshooting", tips |-> 3]

\* lines 561-624: what show_error_details puts on the page for a text
show_error_details(error_msg) ==
    [by |-> "show_error_details", level |-> "error",
     headline |-> Text.download_failed, code |-> error_msg,
     category |-> ErrorBranch(error_msg).category,
     tips |-> ErrorBranch(error_msg).tips, buttons |-> 3]

\* urls of the metadata fetch
InfoUrlParts ==
    {p \in UrlParts : p.tail = <<>> /\ Len(p.id) \in {0, IdLen}}

\* main, lines 736-753: the Get Video Info button
ClickGetInfo ==
    /\ info_pc = "idle"
    /\ info_caller' = "get"
    /\ IF url # <<>> /\ is_valid_youtube_url(url)
       THEN /\ info_pc' = "L218"
            /\ UNCHANGED rendered
       ELSE /\ info_pc' = "done"
            /\ rendered' = Banner("error", Text.enter_valid)
    /\ UNCHANGED <<engine_calls, engine_did, info_out, err_msg, video_info, last_url>>
    /\ UNCHANGED <<dlvars, fmtvars, urlvars, optvars>>

\* main, lines 762 and 820-823: the Refresh Video Info button, on the page
\* while metadata is stored
ClickRefresh ==
    /\ info_pc = "idle"
    /\ video_info.present
    /\ info_caller' = "refresh"
    /\ info_pc' = "L218"
    /\ UNCHANGED <<engine_calls, engine_did, info_out, rendered, err_msg,
                   video_info, last_url>>
    /\ UNCHANGED <<dlvars, fmtvars, urlvars, optvars>>

\* get_video_info without the test of line 218
ValidateUrl_Skipped ==
    /\ info_pc = "L218"
    /\ info_pc' = "L236"
    /\ UNCHANGED <<info_caller, engine_calls, engine_did, info_out, rendered, err_msg,
                   video_info, last_url>>
    /\ UNCHANGED <<dlvars, fmtvars, urlvars, optvars>>

\* get_video_info, lines 218-219
ValidateUrl ==
    /\ info_pc = "L218"
    /\ IF ~is_valid_youtube_url(url)
       THEN /\ info_out' = ValueError(Msg.invalid)
            /\ info_pc' = "L748"
       ELSE /\ info_pc' = "L236"
            /\ UNCHANGED info_out
    /\ UNCHANGED <<info_caller, engine_calls, engine_did, rendered, err_msg,
                   video_info, last_url>>
    /\ UNCHANGED <<dlvars, fmtvars, urlvars, optvars>>

\* get_video_info, lines 221-272: the engine call and what follows it
ExtractInfo(o) ==
    /\ info_pc = "L236"
    /\ engine_calls' = engine_calls + 1
    /\ engine_did' = o
    /\ info_out' = after_extract_info(o)
    /\ info_pc' = IF after_extract_info(o).kind = "ValueError" THEN "L748" ELSE "L741"
    /\ UNCHANGED <<info_caller, rendered, err_msg, video_info, last_url>>
    /\ UNCHANGED <<dlvars, fmtvars, urlvars, optvars>>

\* lines 741-746 and 824-827 with the new dict laid over the stored one:
\* a title the engine did not give keeps the stored title
ShowLoaded_Merges ==
    /\ info_pc = "L741"
    /\ video_info' =
           IF video_info.present /\ info_out.info.title = "Unknown Title"
           THEN [info_out.info EXCEPT !.title = video_info.title]
           ELSE info_out.info
    /\ last_url' = IF info_caller = "get" THEN url ELSE last_url
    /\ rendered' = Banner("success",
                          IF info_caller = "get" THEN Text.loaded ELSE Text.refreshed)
    /\ info_pc' = "done"
    /\ UNCHANGED <<info_caller, engine_calls, engine_did, info_out, err_msg>>
    /\ UNCHANGED <<dlvars, fmtvars, urlvars, optvars>>

\* main, lines 741-746 and 824-827: get_video_info returned; what it
\* returned is stored (and the url, by Get Video Info)
ShowLoaded ==
    /\ info_pc = "L741"
    /\ video_info' = info_out.info
    /\ last_url' = IF info_caller = "get" THEN url ELSE last_url
    /\ rendered' = Banner("success",
                          IF info_caller = "get" THEN Text.loaded ELSE Text.refreshed)
    /\ info_pc' = "done"
    /\ UNCHANGED <<info_caller, engine_calls, engine_did, info_out, err_msg>>
    /\ UNCHANGED <<dlvars, fmtvars, urlvars, optvars>>

\* main, lines 748-749 and 828-829: get_video_info raised
ShowFetchError ==
    /\ info_pc = "L748"
    /\ rendered' = Banner("error",
                          (IF info_caller = "get" THEN Text.cross ELSE Text.refresh_failed)
                              \o info_out.msg)
    /\ info_pc' = "done"
    /\ UNCHANGED <<info_caller, engine_calls, engine_did, info_out, err_msg,
                   video_info, last_url>>
    /\ UNCHANGED <<dlvars, fmtvars, urlvars, optvars>>

\* download_video, lines 552 and 558: a failed download is put on the page
ShowDownloadError(m) ==
    /\ info_pc = "idle"
    /\ err_msg' = m
    /\ rendered' = show_error_details(m)
    /\ info_pc' = "done"
    /\ info_caller' = "download"
    /\ UNCHANGED <<engine_calls, engine_did, info_out, video_info, last_url>>
    /\ UNCHANGED <<dlvars, fmtvars, urlvars, optvars>>

\* ============================================ the request compiler
\* one stream of a format selector: name[height<=h][abr<=a][ext=e]; a
\* selector is the sequence of its alternatives ('/'), an alternative the
\* sequence of the streams it merges ('+')
Sel(name, height, abr, ext) ==
    [name |-> name, height |-> height, abr |-> abr, ext |-> ext]

\* a key the request does not have
Absent == <<MissingStr>>

\* download_config.get(key, default)
Get(v, default) == IF v = Absent THEN default ELSE v

\* quality.replace('k', '')
replace_k(q) == SelectSeq(q, LAMBDA c : c # "k")

\* the quality tokens (keys of the tables of lines 371-408)
Q ==
    [k \in {"best", "2160p", "1440p", "1080p", "720p",
            "480p", "360p", "worst", "320k", "256k", "192k", "128k", "96k"} |->
     CASE k = "best" -> <<"b", "e", "s", "t">>
       [] k = "2160p" -> <<"2", "1", "6", "0", "p">>
       [] k = "1440p" -> <<"1", "4", "4", "0", "p">>
       [] k = "1080p" -> <<"1", "0", "8", "0", "p">>
       [] k = "720p" -> <<"7", "2", "0", "p">>
       [] k = "480p" -> <<"4", "8", "0", "p">>
       [] k = "360p" -> <<"3", "6", "0", "p">>
       [] k = "worst" -> <<"w", "o", "r", "s", "t">>
       [] k = "320k" -> <<"3", "2", "0", "k">>
       [] k = "256k" -> <<"2", "5", "6", "k">>
       [] k = "192k" -> <<"1", "9", "2", "k">>
       [] k = "128k" -> <<"1", "2", "8", "k">>
       [] k = "96k" -> <<"9", "6", "k">>]

\* the output formats of lines 384 and 412
F ==
    [mp4 |-> <<"m", "p", "4">>,
     mkv |-> <<"m", "k", "v">>,
     webm |-> <<"w", "e", "b", "m">>,
     avi |-> <<"a", "v", "i">>,
     mp3 |-> <<"m", "p", "3">>,
     aac |-> <<"a", "a", "c">>,
     flac |-> <<"f", "l", "a", "c">>,
     wav |-> <<"w", "a", "v">>,
     ogg |-> <<"o", "g", "g">>]

\* lines 371-381 with every quality looked up as 'best'
format_selectors_video_audio_AlwaysBest(quality) ==
    CASE quality = Q["best"] ->
           <<<<Sel("bestvideo", 2160, Missing, "mp4"), Sel("bestaudio", Missing, Missing, "m4a")>>,
             <<Sel("bestvideo", 2160, Missing, MissingStr), Sel("bestaudio", Missing, Missing, MissingStr)>>,
             <<Sel("best", 2160, Missing, MissingStr)>>>>
      [] OTHER ->
           <<<<Sel("bestvideo", 2160, Missing, "mp4"), Sel("bestaudio", Missing, Missing, "m4a")>>,
             <<Sel("bestvideo", 2160, Missing, MissingStr), Sel("bestaudio", Missing, Missing, MissingStr)>>,
             <<Sel("best", 2160, Missing, MissingStr)>>>>

\* lines 371-381: format_selectors.get(quality, format_selectors['best'])
format_selectors_video_audio(quality) ==
    CASE quality = Q["best"] ->
           <<<<Sel("bestvideo", 2160, Missing, "mp4"), Sel("bestaudio", Missing, Missing, "m4a")>>,
             <<Sel("bestvideo", 2160, Missing, MissingStr), Sel("bestaudio", Missing, Missing, MissingStr)>>,
             <<Sel("best", 2160, Missing, MissingStr)>>>>
      [] quality = Q["2160p"] ->
           <<<<Sel("bestvideo", 2160, Missing, "mp4"), Sel("bestaudio", Missing, Missing, "m4a")>>,
             <<Sel("bestvideo", 2160, Missing, MissingStr), Sel("bestaudio", Missing, Missing, MissingStr)>>,
             <<Sel("best", 2160, Missing, MissingStr)>>>>
      [] quality = Q["1440p"] ->
           <<<<Sel("bestvideo", 1440, Missing, "mp4"), Sel("bestaudio", Missing, Missing, "m4a")>>,
             <<Sel("bestvideo", 1440, Missing, MissingStr), Sel("bestaudio", Missing, Missing, MissingStr)>>,
             <<Sel("best", 1440, Missing, MissingStr)>>>>
      [] quality = Q["1080p"] ->
           <<<<Sel("bestvideo", 1080, Missing, "mp4"), Sel("bestaudio", Missing, Missing, "m4a")>>,
             <<Sel("bestvideo", 1080, Missing, MissingStr), Sel("bestaudio", Missing, Missing, MissingStr)>>,
             <<Sel("best", 1080, Missing, MissingStr)>>>>
      [] quality = Q["720p"] ->
           <<<<Sel("bestvideo", 720, Missing, "mp4"), Sel("bestaudio", Missing, Missing, "m4a")>>,
             <<Sel("bestvideo", 720, Missing, MissingStr), Sel("bestaudio", Missing, Missing, MissingStr)>>,
             <<Sel("best", 720, Missing, MissingStr)>>>>
      [] quality = Q["480p"] ->
           <<<<Sel("bestvideo", 480, Missing, "mp4"), Sel("bestaudio", Missing, Missing, "m4a")>>,
             <<Sel("bestvideo", 480, Missing, MissingStr), Sel("bestaudio", Missing, Missing, MissingStr)>>,
             <<Sel("best", 480, Missing, MissingStr)>>>>
      [] quality = Q["360p"] ->
           <<<<Sel("bestvideo", 360, Missing, "mp4"), Sel("bestaudio", Missing, Missing, "m4a")>>,
             <<Sel("bestvideo", 360, Missing, MissingStr), Sel("bestaudio", Missing, Missing, MissingStr)>>,
             <<Sel("best", 360, Missing, MissingStr)>>>>
      [] quality = Q["worst"] ->
           <<<<Sel("worstvideo", Missing, Missing, "mp4"), Sel("worstaudio", Missing, Missing, "m4a")>>,
             <<Sel("worstvideo", Missing, Missing, MissingStr), Sel("worstaudio", Missing, Missing, MissingStr)>>,
             <<Sel("worst", Missing, Missing, MissingStr)>>>>
      [] OTHER ->
           <<<<Sel("bestvideo", 2160, Missing, "mp4"), Sel("bestaudio", Missing, Missing, "m4a")>>,
             <<Sel("bestvideo", 2160, Missing, MissingStr), Sel("bestaudio", Missing, Missing, MissingStr)>>,
             <<Sel("best", 2160, Missing, MissingStr)>>>>

\* lines 388-398: format_selectors.get(quality, format_selectors['best'])
format_selectors_video_only(quality) ==
    CASE quality = Q["best"] ->
           <<<<Sel("bestvideo", 2160, Missing, "mp4")>>,
             <<Sel("bestvideo", 2160, Missing, MissingStr)>>,
             <<Sel("bestvideo", Missing, Missing, MissingStr)>>>>
      [] quality = Q["2160p"] -> <<<<Sel("bestvideo", 2160, Missing, "mp4")>>,
             <<Sel("bestvideo", 2160, Missing, MissingStr)>>>>
      [] quality = Q["1440p"] -> <<<<Sel("bestvideo", 1440, Missing, "mp4")>>,
             <<Sel("bestvideo", 1440, Missing, MissingStr)>>>>
      [] quality = Q["1080p"] -> <<<<Sel("bestvideo", 1080, Missing, "mp4")>>,
             <<Sel("bestvideo", 1080, Missing, MissingStr)>>>>
      [] quality = Q["720p"] -> <<<<Sel("bestvideo", 720, Missing, "mp4")>>,
             <<Sel("bestvideo", 720, Missing, MissingStr)>>>>
      [] quality = Q["480p"] -> <<<<Sel("bestvideo", 480, Missing, "mp4")>>,
             <<Sel("bestvideo", 480, Missing, MissingStr)>>>>
      [] quality = Q["360p"] -> <<<<Sel("bestvideo", 360, Missing, "mp4")>>,
             <<Sel("bestvideo", 360, Missing, MissingStr)>>>>
      [] quality = Q["worst"] ->
           <<<<Sel("worstvideo", Missing, Missing, "mp4")>>,
             <<Sel("worstvideo", Missing, Missing, MissingStr)>>>>
      [] OTHER -> <<<<Sel("bestvideo", 2160, Missing, "mp4")>>,
             <<Sel("bestvideo", 2160, Missing, MissingStr)>>,
             <<Sel("bestvideo", Missing, Missing, MissingStr)>>>>

\* lines 401-409: quality_map.get(quality, quality_map['best'])
quality_map(quality) ==
    CASE quality = Q["best"] ->
           <<<<Sel("bestaudio", Missing, Missing, "m4a")>>,
             <<Sel("bestaudio", Missing, Missing, MissingStr)>>>>
      [] quality = Q["320k"] -> <<<<Sel("bestaudio", Missing, 320, "m4a")>>,
             <<Sel("bestaudio", Missing, 320, MissingStr)>>>>
      [] quality = Q["256k"] -> <<<<Sel("bestaudio", Missing, 256, "m4a")>>,
             <<Sel("bestaudio", Missing, 256, MissingStr)>>>>
      [] quality = Q["192k"] -> <<<<Sel("bestaudio", Missing, 192, "m4a")>>,
             <<Sel("bestaudio", Missing, 192, MissingStr)>>>>
      [] quality = Q["128k"] -> <<<<Sel("bestaudio", Missing, 128, "m4a")>>,
             <<Sel("bestaudio", Missing, 128, MissingStr)>>>>
      [] quality = Q["96k"] -> <<<<Sel("bestaudio", Missing, 96, "m4a")>>,
             <<Sel("bestaudio", Missing, 96, MissingStr)>>>>
      [] OTHER -> <<<<Sel("bestaudio", Missing, Missing, "m4a")>>,
             <<Sel("bestaudio", Missing, Missing, MissingStr)>>>>

\* line 420: 'best[ext=mp4]/best'
fallback_format ==
    <<<<Sel("best", Missing, Missing, "mp4")>>,
      <<Sel("best", Missing, Missing, MissingStr)>>>>

\* lines 335-436: the options build_ydl_opts derives from the request (the
\* format selector, the merge and audio-extraction directives, the sidecar
\* switches and the retry counts)
build_ydl_opts(cfg) ==
    LET download_type == IF cfg.type = MissingStr THEN "best" ELSE cfg.type
        quality == Get(cfg.quality, Q["best"])
        output_format == Get(cfg.format, F.mp4)
        additional == cfg.additional
    IN  [built |-> TRUE,
         outtmpl |-> temp_dir,
         retries |-> max_retries,
         fragment_retries |-> max_retries,
         format |->
             CASE download_type = "video_audio" -> format_selectors_video_audio(quality)
               [] download_type = "video_only" -> format_selectors_video_only(quality)
               [] download_type = "audio_only" -> quality_map(quality)
               [] OTHER -> fallback_format,
         merge_output_format |->
             IF /\ download_type = "video_audio"
                /\ lower(output_format) \in {F.mp4, F.mkv, F.webm, F.avi}
             THEN lower(output_format)
             ELSE Absent,
         postprocessors |->
             IF /\ download_type = "audio_only"
                /\ lower(output_format) \in {F.mp3, F.aac, F.flac, F.wav, F.ogg}
             THEN <<[key |-> "FFmpegExtractAudio",
                     preferredcodec |-> lower(output_format),
                     preferredquality |->
                         IF Contains(quality, <<"k">>)
                         THEN replace_k(quality)
                         ELSE <<"1", "9", "2">>]>>
             ELSE <<>>,
         writethumbnail |-> additional.thumbnail,
         writedescription |-> additional.description,
         writesubtitles |-> additional.subtitles,
         writeautomaticsub |-> additional.subtitles,
         subtitleslangs |->
             IF additional.subtitles THEN <<"en", "en-US", "en-GB">> ELSE <<>>]

NotBuilt ==
    [built |-> FALSE, outtmpl |-> 0, retries |-> 0, fragment_retries |-> 0, format |-> <<>>,
     merge_output_format |-> Absent, postprocessors |-> <<>>,
     writethumbnail |-> FALSE, writedescription |-> FALSE,
     writesubtitles |-> FALSE, writeautomaticsub |-> FALSE,
     subtitleslangs |-> <<>>]

\* the requests handed to build_ydl_opts
ConfigInputs ==
    [type : {"video_audio", "video_only", "audio_only", "best", MissingStr},
     quality : {Q["best"], Q["2160p"], Q["1440p"], Q["1080p"], Q["720p"], Q["480p"], Q["360p"],
                Q["worst"], Q["320k"], Q["256k"], Q["192k"], Q["128k"], Q["96k"],
                <<"4", "3", "2", "0", "p">>, <<"6", "4", "k">>, Absent},
     format : {F.mp4, F.mkv, F.webm, F.avi, F.mp3, F.aac, F.flac, F.wav, F.ogg,
               <<"M", "P", "4">>, <<"M", "P", "3">>, <<"m", "4", "a">>, Absent},
     additional : [thumbnail : BOOLEAN, description : BOOLEAN,
                   subtitles : BOOLEAN]]

NoConfig ==
    [type |-> MissingStr, quality |-> Absent, format |-> Absent,
     additional |-> [thumbnail |-> FALSE, description |-> FALSE,
                     subtitles |-> FALSE]]

\* the request compiled with a thumbnail directive that depends on whether
\* a request was compiled before
BuildYdlOpts_RemembersCall ==
    /\ ~ydl_prev.built
    /\ ydl_opts' = [build_ydl_opts(download_config) EXCEPT
                        !.writethumbnail = ydl_opts.built]
    /\ ydl_prev' = ydl_opts
    /\ UNCHANGED <<download_config, temp_dir>>
    /\ UNCHANGED <<dlvars, fmtvars, urlvars, infovars>>

\* main, line 1028 (also 638, 656, 1054, 1077): the request is compiled; the
\* page compiles the same request again on a later click (two calls are kept)
BuildYdlOpts ==
    /\ ~ydl_prev.built
    /\ ydl_opts' = build_ydl_opts(download_config)
    /\ ydl_prev' = ydl_opts
    /\ UNCHANGED <<download_config, temp_dir>>
    /\ UNCHANGED <<dlvars, fmtvars, urlvars, infovars>>

\* lines 681-688 (cleanup_files, the clear-downloads button): the directory
\* is removed and mkdtemp makes a new one, with a name not used before
CleanupFiles ==
    /\ temp_dir < MaxDirs
    /\ temp_dir' = temp_dir + 1
    /\ UNCHANGED <<download_config, ydl_opts, ydl_prev>>
    /\ UNCHANGED <<dlvars, fmtvars, urlvars, infovars>>

\* ============================================================ specifications
\* the download path before any download_video call
DownloadIdle ==
    /\ pc = "idle"
    /\ download_state = InitialState
    /\ dsOwner = 0
    /\ writer = 0
    /\ task = [t \in Tasks |-> NoTask]
    /\ emitted = 0
    /\ nsub = 0
    /\ submissions = 0
    /\ req_first = 0
    /\ l_status = "none"
    /\ success = "none"
    /\ ret = "none"
    /\ reported = None
    /\ stale = {}
    /\ mixed = FALSE

\* no format list shown
FormatIdle ==
    /\ formats = <<>>
    /\ fmt_out = NotCalled

\* no url handed in
UrlIdle ==
    /\ url = <<>>
    /\ url_parts = [scheme |-> <<>>, sub |-> <<>>, hostpath |-> <<>>,
                    id |-> <<>>, tail |-> <<>>]
    /\ url_valid = NotAsked
    /\ url_id = [called |-> FALSE, out |-> NoId]

\* no button pressed, nothing on the page
\* no button of the page handled yet
NoClick ==
    /\ info_pc = "idle"
    /\ info_caller = "none"
    /\ engine_calls = 0
    /\ engine_did = NoEngineOutcome
    /\ info_out = NoOutcome
    /\ rendered = Blank
    /\ err_msg = <<>>

\* lines 698-705: a new session
InfoIdle ==
    /\ NoClick
    /\ video_info = NoInfo
    /\ last_url = <<>>

\* what a session has stored when a button is clicked: nothing, or the
\* metadata and url of an earlier Get Video Info
StoredInputs ==
    {[video_info |-> NoInfo, last_url |-> <<>>]}
    \cup {[video_info |-> cleaned_info(i),
           last_url |-> Url(CHOOSE p \in InfoUrlParts : is_valid_youtube_url(Url(p)))] :
          i \in {e \in EngineInfos : e.title # MissingStr}}

\* no request compiled
OptsIdle ==
    /\ download_config = NoConfig
    /\ ydl_opts = NotBuilt
    /\ ydl_prev = NotBuilt
    /\ temp_dir = 1

UiIdle == UrlIdle /\ InfoIdle /\ OptsIdle

UrlInit ==
    /\ url_parts \in UrlParts
    /\ url = Url(url_parts)
    /\ url_valid = NotAsked
    /\ url_id = [called |-> FALSE, out |-> NoId]
    /\ DownloadIdle
    /\ FormatIdle
    /\ InfoIdle
    /\ OptsIdle

UrlNext ==
    \/ Validate
    \/ ExtractId

UrlSpec == UrlInit /\ [][UrlNext]_vars

InfoInit ==
    /\ url_parts \in InfoUrlParts
    /\ url = Url(url_parts)
    /\ url_valid = NotAsked
    /\ url_id = [called |-> FALSE, out |-> NoId]
    /\ NoClick
    /\ \E st \in StoredInputs :
           video_info = st.video_info /\ last_url = st.last_url
    /\ DownloadIdle
    /\ FormatIdle
    /\ OptsIdle

InfoNext ==
    \/ ClickGetInfo
    \/ ClickRefresh
    \/ ValidateUrl
    \/ \E o \in EngineOutcomes : ExtractInfo(o)
    \/ ShowLoaded
    \/ ShowFetchError
    \/ \E m \in Messages : ShowDownloadError(m)

InfoSpec == InfoInit /\ [][InfoNext]_vars

OptsInit ==
    /\ download_config \in ConfigInputs
    /\ ydl_opts = NotBuilt
    /\ ydl_prev = NotBuilt
    /\ temp_dir = 1
    /\ DownloadIdle
    /\ FormatIdle
    /\ UrlIdle
    /\ InfoIdle

OptsNext == BuildYdlOpts \/ CleanupFiles

OptsSpec == OptsInit /\ [][OptsNext]_vars

FormatInit ==
    /\ formats \in FormatInputs
    /\ fmt_out = NotCalled
    /\ pc = "idle"
    /\ download_state = InitialState
    /\ dsOwner = 0
    /\ writer = 0
    /\ task = [t \in Tasks |-> NoTask]
    /\ emitted = 0
    /\ nsub = 0
    /\ submissions = 0
    /\ req_first = 0
    /\ l_status = "none"
    /\ success = "none"
    /\ ret = "none"
    /\ reported = None
    /\ stale = {}
    /\ mixed = FALSE
    /\ UiIdle

FormatNext == ShowFormats

FormatSpec == FormatInit /\ [][FormatNext]_vars

\* ============================================================ download Spec
Init ==
    /\ pc = "idle"
    /\ download_state = InitialState
    /\ dsOwner = 0
    /\ writer = 0
    /\ task = [t \in Tasks |-> NoTask]
    /\ emitted = 0
    /\ nsub = 0
    /\ submissions = 0
    /\ req_first = 0
    /\ l_status = "none"
    /\ success = "none"
    /\ ret = "none"
    /\ reported = None
    /\ stale = {}
    /\ mixed = FALSE
    /\ formats = <<>>
    /\ fmt_out = NotCalled
    /\ UiIdle

Next ==
    \/ StartRequest
    \/ Submit
    \/ LoopTest
    \/ ReadStatus
    \/ ReadProgress
    \/ ReadSpeed
    \/ ReadEta
    \/ ReadTotal
    \/ ReadDownloaded
    \/ GetResult
    \/ ResultTimeout
    \/ CheckSuccess
    \/ ReportFailure
    \/ \E t \in Tasks : WorkerPickup(t)
    \/ \E t \in Tasks, d \in ProgressRecords : HookRecord(t, d)
    \/ \E t \in Tasks : EngineReturn(t)
    \/ \E t \in Tasks, e \in EngineErrors : EngineRaise(t, e)
    \/ \E t \in Tasks : TaskExcept(t)

Spec == Init /\ [][Next]_vars

\* the steps of the thread that runs download_video (lines 511-559)
Poller ==
    \/ Submit
    \/ LoopTest
    \/ ReadStatus
    \/ ReadProgress
    \/ ReadSpeed
    \/ ReadEta
    \/ ReadTotal
    \/ ReadDownloaded
    \/ GetResult
    \/ ResultTimeout
    \/ CheckSuccess
    \/ ReportFailure

\* the steps by which the engine call of task t ends (lines 503-506)
EngineEnds(t) ==
    EngineReturn(t) \/ \E e \in EngineErrors : EngineRaise(t, e)

\* The download path under fair scheduling: the thread of download_video
\* keeps running (the sleep of line 541 ends), a free worker of the pool
\* takes a queued task, every engine call returns or raises in the end, and
\* a task that caught the exception goes on to return.
FairSpec ==
    /\ Init
    /\ [][Next]_vars
    /\ WF_vars(Poller)
    /\ \A t \in Tasks : WF_vars(WorkerPickup(t))
    /\ \A t \in Tasks : WF_vars(EngineEnds(t))
    /\ \A t \in Tasks : WF_vars(TaskExcept(t))

\* ================================================= claims on the download path
Returned == pc = "idle" /\ ret # "none"
\* the engine's download call of task t returned without raising
EngineReturned(t) == task[t].st = "done" /\ task[t].exc = None
\* the engine's download call of task t raised
EngineRaised(t) == task[t].st \in {"except", "done"} /\ task[t].exc # None

\* C1: within one attempt (the dict of one download_video call, written by
\* that call's own background task) a status of 'finished' or 'error' never
\* changes again, and 'downloading' never goes back to 'starting' or 'idle'.
C1_StatusOnlyForward ==
    [][(dsOwner' = dsOwner /\ writer' = dsOwner) =>
          /\ download_state.status \in {"finished", "error"}
                => download_state'.status = download_state.status
          /\ download_state.status = "downloading"
                => download_state'.status \notin {"starting", "idle"}]_vars

\* C2: every field the poller reads in one iteration of the monitoring loop
\* has not been overwritten since the iteration read the status.
C2_PollReadsOneWrite == ~mixed

\* C3: at most one background download unit is queued or running at any time.
C3_OneUnitInFlight == Cardinality({t \in Tasks : InFlight(t)}) <= 1

\* C4: the live DownloadState is written only by the background task of the
\* download_video call that created it.
C4_SingleWriter == writer # 0 => writer = dsOwner

\* C5: whenever a download is about to be submitted the DownloadState is the
\* fresh record, and after download_video has returned the record of that
\* attempt is no longer the orchestrator's live DownloadState.
C5_FreshThenDiscarded ==
    /\ pc = "L511" => download_state = FreshState
    /\ Returned => dsOwner # nsub

\* C6: the result retrieval of line 544 is reached only with the background
\* unit completed, and its timeout never expires.
C6_ResultAfterCompletion ==
    /\ pc = "L544" => task[nsub].st = "done"
    /\ reported # "TimeoutError"

\* C7 as claimed: download_video returns True exactly when the engine's
\* download call of that attempt returned without raising, and otherwise
\* forwards the error captured from the engine (stated for the calls whose
\* result was retrieved before the timeout of line 544).
C7_SuccessIffEngineReturned ==
    (Returned /\ reported # "TimeoutError") =>
        /\ (ret = "L549") <=> EngineReturned(nsub)
        /\ (ret # "L549" /\ EngineRaised(nsub)) => reported = task[nsub].exc

\* C7 as amended: download_video returns True only if the engine's download
\* call of that attempt has returned without raising; whenever that call
\* raised, download_video returns False and hands show_error_details a text.
C7_SuccessOnlyIfEngineReturned ==
    Returned =>
        /\ ret = "L549" => EngineReturned(nsub)
        /\ EngineRaised(nsub) => ret \in {"L553", "L559"} /\ reported # None

\* C7 witness: a download with progress records that returned True
C7_Witness == Returned /\ ret = "L549" /\ EngineReturned(nsub) /\ emitted > 0

\* the consecutive access-denied failures of the current download_video
\* call's engine calls, counted from its first submission
DeniedRun ==
    Cardinality({t \in req_first..nsub :
                    \A u \in req_first..t :
                        task[u].st = "done" /\ task[u].exc = Denied})

\* C8: after N consecutive access-denied failures, N < max attempts, the
\* download_video call has made exactly N+1 submissions and the live
\* DownloadState is the one of the last submission.
C8_RetryAfterDenied ==
    (Returned /\ reported # "TimeoutError" /\ DeniedRun < max_retries) =>
        /\ submissions = DeniedRun + 1
        /\ dsOwner = nsub

NonRetryable ==
    { "Private video", "blocked on copyright grounds",
      "not available in your country (geo restriction)" }

\* C9: when the first engine call of a download_video call raised a
\* non-retryable error (private/unavailable, copyright, geo-blocked), that
\* call made exactly one submission, and it returns failure.
C9_NonRetryableOnce ==
    (req_first \in Tasks /\ EngineRaised(req_first)
        /\ task[req_first].exc \in NonRetryable) =>
        /\ submissions = 1
        /\ nsub = req_first
        /\ Returned => ret \in {"L553", "L559"}

\* C9 witness: a first engine call that raised a non-retryable error, reported
\* after the single submission
C9_Witness ==
    /\ Returned
    /\ EngineRaised(req_first)
    /\ task[req_first].exc \in NonRetryable
    /\ ret = "L553"
    /\ reported = task[req_first].exc
    /\ submissions = 1

\* ============================================== claims on the classifier
\* how often descriptor f occurs in the returned list seq
Occ(seq, f) == Cardinality({i \in DOMAIN seq : seq[i] = f})
Listed(f) ==
    Occ(fmt_out.video, f) + Occ(fmt_out.audio, f) + Occ(fmt_out.combined, f)
Returned3 == fmt_out.called /\ ~fmt_out.raised

Segmented(f) == f.protocol \in {"m3u8", "m3u8_native", "http_dash_segments"}
\* a codec is absent when the key is missing or holds the string 'none'
HasVideo(f) == f.vcodec \notin {"none", MissingStr}
HasAudio(f) == f.acodec \notin {"none", MissingStr}
\* the non-segmented descriptors of the input with the same class as f
Peers(f) ==
    {i \in DOMAIN formats :
        /\ ~Segmented(formats[i])
        /\ HasVideo(formats[i]) = HasVideo(f)
        /\ HasAudio(formats[i]) = HasAudio(f)}
CapOf(f) ==
    IF HasVideo(f) /\ HasAudio(f) THEN CombinedCap
    ELSE IF HasVideo(f) THEN VideoCap ELSE AudioCap

Descending(seq, field) ==
    \A i, j \in DOMAIN seq :
        i < j => /\ seq[i][field] # NoneVal
                 /\ seq[j][field] # NoneVal
                 /\ SortKey(seq[i], field) >= SortKey(seq[j], field)

\* C11: for every list of descriptors get_available_formats returns the
\* video-only and combined lists in descending height and the audio-only
\* list in descending bitrate, with at most 15, 15 and 10 entries, also when
\* a descriptor carries no height or no bitrate value.
C11_SortedAndCapped ==
    fmt_out.called =>
        /\ ~fmt_out.raised
        /\ Descending(fmt_out.video, "height")
        /\ Descending(fmt_out.combined, "height")
        /\ Descending(fmt_out.audio, "abr")
        /\ Len(fmt_out.video) <= VideoCap
        /\ Len(fmt_out.combined) <= CombinedCap
        /\ Len(fmt_out.audio) <= AudioCap

\* ===================================================== claims on the urls
\* u matches none of the validator's patterns
MatchesNoPattern(u) == \A n \in 1..5 : youtube_patterns(n, u) = {}

\* C12: for every string that matches none of the validator's url patterns,
\* is_valid_youtube_url returns False and extract_video_id returns None.
C12_NoPatternNoId ==
    MatchesNoPattern(url) =>
        /\ url_valid # "True"
        /\ url_id.called => ~url_id.out.found

\* i is an 11-character video id
IsVideoId(i) == Len(i) = IdLen /\ \A k \in DOMAIN i : i[k] \in IdChars

\* C13: for every valid watch, short, embed or legacy /v/ url carrying an
\* 11-character id, with or without scheme, www/m subdomain and trailing
\* query parameters, extract_video_id returns exactly that id.
C13_ExtractsExactlyTheId ==
    (url_id.called /\ is_valid_youtube_url(url) /\ IsVideoId(url_parts.id)) =>
        url_id.out = [found |-> TRUE, id |-> url_parts.id]

C13_Witness ==
    /\ url_id.called
    /\ is_valid_youtube_url(url)
    /\ IsVideoId(url_parts.id)
    /\ url_parts.scheme # <<>>
    /\ url_parts.sub = Lit.m
    /\ url_parts.tail # <<>>
    /\ url_id.out.id = url_parts.id

\* ============================================ claims on the metadata fetch
\* get_video_info was entered and has left
FetchLeft ==
    /\ info_caller \in {"get", "refresh"}
    /\ info_pc \in {"L741", "L748", "done"}
    /\ info_out # NoOutcome

\* C14: get_video_info on a url that fails validation fails with the
\* invalid-input error without any call of the engine, and the engine is
\* called only after validation has succeeded.
C14_EngineOnlyAfterValidation ==
    /\ (engine_calls > 0 \/ info_pc = "L236") => is_valid_youtube_url(url)
    /\ (FetchLeft /\ ~is_valid_youtube_url(url)) =>
           /\ info_out = ValueError(Msg.invalid)
           /\ engine_calls = 0

C14_Witness ==
    /\ FetchLeft
    /\ ~is_valid_youtube_url(url)
    /\ url # <<>>
    /\ info_out = ValueError(Msg.invalid)
    /\ engine_calls = 0
    /\ info_pc = "done"

\* the class the claim's priority rule gives the text m
Priority(m) ==
    IF Contains(lower(m), Keyword.private) \/ Contains(lower(m), Keyword.unavailable)
    THEN "PrivateOrUnavailable"
    ELSE IF Contains(lower(m), Keyword.copyright)
    THEN "CopyrightBlocked"
    ELSE IF Contains(lower(m), Keyword.geo) \/ Contains(lower(m), Keyword.blocked)
    THEN "GeoBlocked"
    ELSE "ExtractionFailed"

\* the class of what get_video_info raised, raw being the engine's text
ClassOf(out, raw) ==
    IF out = ValueError(Msg.private) THEN "PrivateOrUnavailable"
    ELSE IF out = ValueError(Msg.copyright) THEN "CopyrightBlocked"
    ELSE IF out = ValueError(Msg.geo) THEN "GeoBlocked"
    ELSE IF out \in {ValueError(Msg.download_error \o raw), ValueError(Msg.failed \o raw)}
    THEN "ExtractionFailed"
    ELSE "none"

EngineFailed == engine_did.kind \in {"DownloadError", "Exception"}

\* C15 as stated: whenever the engine's metadata call fails, the lower-cased
\* text is classified private/unavailable, else copyright, else geo/blocked,
\* else ExtractionFailed with the raw text.
C15_EveryFailureClassified ==
    EngineFailed => ClassOf(info_out, engine_did.msg) = Priority(engine_did.msg)

\* C15: a DownloadError of the engine is classified by that priority (a
\* text with "private" is PrivateOrUnavailable also when it has geo/blocked
\* keywords); any other exception gives ExtractionFailed with the raw text,
\* whatever the text says.
C15_DownloadErrorClassified ==
    /\ engine_did.kind = "DownloadError" =>
           ClassOf(info_out, engine_did.msg) = Priority(engine_did.msg)
    /\ engine_did.kind = "Exception" =>
           ClassOf(info_out, engine_did.msg) = "ExtractionFailed"

C15_Witness ==
    /\ engine_did.kind = "DownloadError"
    /\ Contains(lower(engine_did.msg), Keyword.private)
    /\ Contains(lower(engine_did.msg), Keyword.blocked)
    /\ ~Contains(engine_did.msg, Keyword.private)
    /\ info_out = ValueError(Msg.private)

\* ============================================ claims on the error rendering
K_403 == <<"4", "0", "3">>
K_forbidden == <<"f", "o", "r", "b", "i", "d", "d", "e", "n">>

\* the claim's name for a heading of show_error_details
CategoryName(heading) ==
    CASE heading = "Rate Limiting Issue" -> "rate-limited"
      [] heading = "Video Access Issue" -> "private-or-unavailable"
      [] heading = "Copyright Protected" -> "copyright"
      [] heading = "Geographic Restriction" -> "geo-blocked"
      [] heading = "Streaming Format Issue" -> "streaming-format-unsupported"
      [] heading = "General Troubleshooting" -> "generic"
      [] OTHER -> "none"

\* a text that reports HTTP 403 / forbidden and has no keyword of another class
AccessDeniedText(m) ==
    /\ Contains(m, K_403) /\ Contains(lower(m), K_forbidden)
    /\ ErrorBranch(m).category = "General Troubleshooting"

\* C16: the download error classifier maps every raw text to exactly one of
\* rate-limited, access-denied, private-or-unavailable, copyright,
\* geo-blocked, streaming-format-unsupported and generic, and a text that
\* reports HTTP 403 / forbidden is access-denied.
C16_SevenCategories ==
    rendered.by = "show_error_details" =>
        /\ \/ CategoryName(rendered.category) # "none"
           \/ rendered.category = "access-denied"
        /\ AccessDeniedText(err_msg) => rendered.category = "access-denied"

\* a failure of the engine has been put on the page
FetchFailureShown ==
    /\ info_pc = "done"
    /\ info_caller \in {"get", "refresh"}
    /\ EngineFailed

DownloadFailureShown == info_pc = "done" /\ info_caller = "download"

\* the page names the class of the failure
ShowsClass ==
    \/ rendered.category # "none"
    \/ \E m \in {Msg.private, Msg.copyright, Msg.geo, Msg.download_error, Msg.failed} :
           Contains(rendered.headline, m)

\* the page has the text raw on it
ShowsRaw(raw) == rendered.code = raw \/ Contains(rendered.headline, raw)

\* C17: every terminal failure of a metadata fetch or of a download is put
\* on the page with its class, the raw diagnostic text and at least one
\* suggested remediation.
C17_FailureFullyRendered ==
    /\ FetchFailureShown =>
           /\ rendered.level = "error"
           /\ ShowsClass
           /\ ShowsRaw(engine_did.msg)
           /\ rendered.tips + rendered.buttons >= 1
    /\ DownloadFailureShown =>
           /\ rendered.level = "error"
           /\ ShowsClass
           /\ ShowsRaw(err_msg)
           /\ rendered.tips + rendered.buttons >= 1

\* ========================================= claims on the request compiler
Compiled == ydl_opts.built

ResolutionCeilings == {Q["2160p"], Q["1440p"], Q["1080p"], Q["720p"], Q["480p"], Q["360p"]}

\* the height a resolution token names
CeilingOf(q) ==
    CASE q = Q["2160p"] -> 2160
      [] q = Q["1440p"] -> 1440
      [] q = Q["1080p"] -> 1080
      [] q = Q["720p"] -> 720
      [] q = Q["480p"] -> 480
      [] q = Q["360p"] -> 360

BitrateCeilings == {Q["320k"], Q["256k"], Q["192k"], Q["128k"], Q["96k"]}

\* the bitrate a bitrate token names
BitrateOf(q) ==
    CASE q = Q["320k"] -> 320
      [] q = Q["256k"] -> 256
      [] q = Q["192k"] -> 192
      [] q = Q["128k"] -> 128
      [] q = Q["96k"] -> 96

\* the streams of the selector f, over all its alternatives
Streams(f) == UNION {{f[a][t] : t \in DOMAIN f[a]} : a \in DOMAIN f}

\* selector names that can pick a stream with video in it
VideoNames == {"bestvideo", "best", "worstvideo", "worst"}

\* C18: a video+audio request with resolution ceiling Q compiles to the
\* alternatives, in order: best video of height <= Q in mp4 merged with
\* best m4a audio, best video of height <= Q merged with best audio, best
\* combined stream of height <= Q; no alternative admits a stream above Q.
C18_CeilingAlternatives ==
    (/\ Compiled
     /\ download_config.type = "video_audio"
     /\ download_config.quality \in ResolutionCeilings) =>
        LET h == CeilingOf(download_config.quality)
            f == ydl_opts.format
        IN  /\ f = << <<Sel("bestvideo", h, Missing, "mp4"),
                        Sel("bestaudio", Missing, Missing, "m4a")>>,
                      <<Sel("bestvideo", h, Missing, MissingStr),
                        Sel("bestaudio", Missing, Missing, MissingStr)>>,
                      <<Sel("best", h, Missing, MissingStr)>> >>
            /\ \A st \in Streams(f) :
                   st.name \in VideoNames =>
                       st.height # Missing /\ st.height <= h

C18_Witness ==
    /\ Compiled
    /\ download_config.type = "video_audio"
    /\ download_config.quality = Q["720p"]
    /\ Len(ydl_opts.format) = 3
    /\ ydl_opts.format[3][1].height = 720

\* C19: an audio-only request with bitrate ceiling Q compiles to a selector
\* that picks the best audio at or below the ceiling and whose last
\* alternative is the best audio stream overall.
C19_CeilingThenBestAudio ==
    (/\ Compiled
     /\ download_config.type = "audio_only"
     /\ download_config.quality \in BitrateCeilings) =>
        LET b == BitrateOf(download_config.quality)
            f == ydl_opts.format
        IN  /\ f[1] = <<Sel("bestaudio", Missing, b, f[1][1].ext)>>
            /\ f[Len(f)] = <<Sel("bestaudio", Missing, Missing, MissingStr)>>

Requested == lower(Get(download_config.format, F.mp4))

\* the format the preferred alternative of the compiled selector pins
SourceFormat ==
    IF ydl_opts.format[1][1].ext = "m4a" THEN <<"m", "4", "a">>
    ELSE IF ydl_opts.format[1][1].ext = "mp4" THEN F.mp4
    ELSE Absent

Directives(o) ==
    <<o.format, o.merge_output_format, o.postprocessors, o.writethumbnail,
      o.writedescription, o.writesubtitles, o.writeautomaticsub,
      o.subtitleslangs>>

C23_StatusAndProgressInRange ==
    /\ download_state.status \in
           {"idle", "starting", "downloading", "finished", "error"}
    /\ download_state.progress \in 0..100

\* a record with more bytes downloaded than the estimated total was applied
C23_Witness ==
    /\ download_state.status = "downloading"
    /\ download_state.total_bytes > 0
    /\ download_state.downloaded_bytes > download_state.total_bytes
    /\ download_state.progress = 100

\* C24: the stored metadata is replaced as a whole, never merged: when a
\* fetch or refresh succeeds the stored record becomes exactly what
\* get_video_info returned (and Get Video Info remembers the url); every
\* other step, a fetch or refresh that fails on an invalid url or on an
\* engine error included, leaves the stored record and the remembered url
\* unchanged.
C24_ReplacedWholesale ==
    [][/\ (info_pc = "L741" /\ info_pc' = "done") =>
              /\ video_info' = info_out.info
              /\ info_caller = "get" => last_url' = url
              /\ info_caller = "refresh" => last_url' = last_url
       /\ ~(info_pc = "L741" /\ info_pc' = "done") =>
              UNCHANGED <<video_info, last_url>>]_vars

\* a refresh replaced a stored record that had a title by one of a video
\* without title: nothing of the old record is left
C24_Witness ==
    /\ info_pc = "done"
    /\ info_caller = "refresh"
    /\ info_out.kind = "info"
    /\ video_info = cleaned_info([id |-> "B", title |-> MissingStr,
                                  uploader |-> MissingStr])
    /\ last_url # url

\* C25: in every interleaving a status of 'error' comes with an error
\* message, and a status of 'finished' comes with progress 100 and no error
\* message.
C25_StatusMatchesFields ==
    /\ download_state.status = "error" => download_state.error # None
    /\ download_state.status = "finished" =>
           /\ download_state.progress = 100
           /\ download_state.error = None

\* a record whose byte counts are None
Malformed(d) ==
    NoneVal \in {d.total_bytes, d.total_bytes_estimate, d.downloaded_bytes}

\* C27: progress_hook (the only step that counts a record as emitted)
\* changes only what its record is about: a record with
\* a status other than downloading, finished or error, or a malformed
\* record that makes the hook fail inside, leaves the download state
\* unchanged and lets the engine go on; an 'error' record changes only the
\* status and the error; a 'finished' record leaves total_bytes and
\* downloaded_bytes unchanged.
C27_HookChangesOnlyItsFields ==
    [][emitted' # emitted =>
          \A t \in Tasks : \A d \in ProgressRecords :
              HookRecord(t, d) =>
                  LET st == DGetStr(d.status, "unknown")
                  IN  /\ (st \notin {"downloading", "finished", "error"} \/ Malformed(d)) =>
                             /\ download_state' = download_state
                             /\ task' = task
                      /\ st = "error" =>
                             \A f \in DOMAIN download_state \ {"status", "error"} :
                                 download_state'[f] = download_state[f]
                      /\ st = "finished" =>
                             /\ download_state'.total_bytes = download_state.total_bytes
                             /\ download_state'.downloaded_bytes =
                                    download_state.downloaded_bytes]_vars

\* records were handed to the hook by a running task and none of them was
\* written: the state is still the one download_video set
C27_Witness ==
    /\ emitted > 0
    /\ writer = 0
    /\ download_state = FreshState
    /\ \E t \in Tasks : task[t].st = "running"

\* C26: under fair scheduling of the polling thread and the worker pool,
\* with every engine call returning or raising in the end, each
\* download_video call leaves the monitoring loop and returns True or False
\* (lines 549, 553, 559) without raising, also while the task of an earlier
\* abandoned download still occupies a worker.
C26_DownloadVideoTerminates ==
    (pc # "idle") ~> (pc = "idle" /\ ret \in {"L549", "L553", "L559"})

\* the second download_video call has returned while the task of the first,
\* abandoned on a timeout, is still running on its worker
C26_Witness ==
    /\ Returned
    /\ nsub = 2
    /\ task[1].st = "running"
    /\ task[2].st = "done"

====
